---------------------------- MODULE Spec2Model ----------------------------
(***************************************************************************)
(* State-machine model of bot.py, the Telegram MCQ -> quiz bot.            *)
(*                                                                         *)
(* The SQLite tables `sessions` and `polls_map` are sequences of rows in   *)
(* rowid order.  REPLACE INTO deletes the row with the same primary key    *)
(* and inserts the new row with a fresh, largest rowid, so a replaced row  *)
(* moves to the end of the sequence.  Every handler of the bot is one      *)
(* action of Spec.  SpecConc splits handle_poll_answer and end_quiz at the *)
(* point between load_session and save_session, which is where the worker *)
(* threads of the bot and the threading.Timer thread can interleave.       *)
(***************************************************************************)
EXTENDS Integers, Sequences, FiniteSets, Bags, TLC

VARIABLES
    sessions,    \* table sessions: rows in rowid order
    polls_map,   \* table polls_map: rows in rowid order
    timers,      \* bag of armed threading.Timer objects, each [session_id, chat_id, due]
    now,         \* int(time.time())
    created,     \* history: questions handle_document stored for each (chat, session id)
    ended,       \* history: the (chat, session id) for which end_quiz has run
    starts,      \* history: the number of quiz starts so far, which the model caps
    custom,      \* history: chat -> session id whose "Custom" button was pressed last
    inflight,    \* SpecConc: handler invocations between their load and their save
    finished     \* SpecConc: answers whose handler has returned

vars == <<sessions, polls_map, timers, now, created, ended, starts,
          custom, inflight, finished>>

---------------------------------------------------------------------------
(* Bounds of the model *)

NumChats == 1
NumUsers == 2
MaxQuestions == 2
MaxSessions == 2
MaxStarts == 1
QuizStarts == 2
QuizAnswers == 2
NumWorkers == 2
ConcAnswers == 2
MaxClock == 2
MaxAnswers == 2
ScoreAnswers == 3

Chats == 1..NumChats
Users == 1..NumUsers

(* Python's None, for option_ids == [] and for an unresolved correct_index *)
None == -1

(* The option a user picks: nothing, option 0 or option 1 *)
Choices == {None, 0, 1}

(* The numbers sent as a message in the model; "-5" is not digit-only *)
CustomTexts == {-5, 0, 5, 1441}

NoSession == [found |-> FALSE]
NoSid == <<"none", 0>>
AWAITING_CUSTOM == [kind |-> "__AWAITING_CUSTOM__"]

---------------------------------------------------------------------------
(* Helpers on Python values *)

Max(a, b) == IF a >= b THEN a ELSE b

Min(a, b) == IF a <= b THEN a ELSE b

(* f"session_{int(time.time())}" *)
SessionId(t) == <<"session_", t>>

(* dict.get(key, default) *)
Get(d, k, default) == IF k \in DOMAIN d THEN d[k] ELSE default

(* d[k] = v on a dict *)
Put(d, k, v) == [x \in DOMAIN d \cup {k} |-> IF x = k THEN v ELSE d[x]]

EmptyDict == [x \in {} |-> 0]

(* A text: a tag and two numbers (a question's text is its document and ordinal) *)
Text(tag, a, b) == <<tag, a, b>>

(* What the heuristic parser returns for a document holding n numbered
   questions with lettered options: n records, correct_index unset. *)
parse_mcqs_from_text(n) ==
    [i \in 1..n |-> [kind |-> "q", num |-> i, question |-> Text("Q", n, i),
                     options |-> <<"A", "B">>,
                     correct_index |-> None, explanation |-> "None"]]

(* The placeholder oracle: index 0 with a note, with or without an API key. *)
get_answer_with_gemini(question, options) == <<0, "demo">>

IsQuestion(q) == q.kind = "q"


---------------------------------------------------------------------------
(* The session store *)

SameKey(r, chat_id, session_id) == r.chat_id = chat_id /\ r.session_id = session_id

(* REPLACE INTO sessions: the row with this primary key is deleted and the
   new row is inserted with the largest rowid. *)
save_session(rows, chat_id, session_id, questions, current_q, scores, start_ts, end_ts) ==
    Append(SelectSeq(rows, LAMBDA r : ~SameKey(r, chat_id, session_id)),
           [chat_id |-> chat_id, session_id |-> session_id, questions |-> questions,
            current_q |-> current_q, scores |-> scores,
            start_ts |-> start_ts, end_ts |-> end_ts])

HasSession(rows, chat_id, session_id) ==
    \E i \in DOMAIN rows : SameKey(rows[i], chat_id, session_id)

(* SELECT ... WHERE chat_id=? AND session_id=?, None when there is no row *)
load_session(rows, chat_id, session_id) ==
    IF HasSession(rows, chat_id, session_id)
    THEN LET r == rows[CHOOSE i \in DOMAIN rows : SameKey(rows[i], chat_id, session_id)]
         IN  [found |-> TRUE, questions |-> r.questions, current_q |-> r.current_q,
              scores |-> r.scores, start_ts |-> r.start_ts, end_ts |-> r.end_ts]
    ELSE NoSession

(* SELECT ... WHERE chat_id=? ORDER BY rowid DESC LIMIT 1: the index of the
   row of the chat that was written last, 0 when the chat has no row *)
LatestRow(rows, chat_id) ==
    LET S == {i \in DOMAIN rows : rows[i].chat_id = chat_id}
    IN  IF S = {} THEN 0 ELSE CHOOSE i \in S : \A j \in S : j <= i

(* "__AWAITING_CUSTOM__" in questions_json *)
IsAwaiting(questions) == \E i \in DOMAIN questions : questions[i] = AWAITING_CUSTOM

(* ... AND questions_json NOT LIKE '%__AWAITING_CUSTOM__%' ORDER BY rowid DESC LIMIT 1 *)
LatestRealRow(rows, chat_id) ==
    LET S == {i \in DOMAIN rows : rows[i].chat_id = chat_id /\ ~IsAwaiting(rows[i].questions)}
    IN  IF S = {} THEN 0 ELSE CHOOSE i \in S : \A j \in S : j <= i

(* map_poll_to_q storing the 1-based ordinal of the question *)
map_poll_to_q_ordinal(rows, chat_id, poll_id, session_id, q_index) ==
    Append(rows, [chat_id |-> chat_id, poll_id |-> poll_id,
                  session_id |-> session_id, q_index |-> q_index + 1])

(* INSERT INTO polls_map *)
map_poll_to_q(rows, chat_id, poll_id, session_id, q_index) ==
    Append(rows, [chat_id |-> chat_id, poll_id |-> poll_id,
                  session_id |-> session_id, q_index |-> q_index])

(* SELECT ... FROM polls_map WHERE poll_id=?: the index of the first row, or 0 *)
lookup_poll(rows, poll_id) ==
    LET S == {i \in DOMAIN rows : rows[i].poll_id = poll_id}
    IN  IF S = {} THEN 0 ELSE CHOOSE i \in S : \A j \in S : i <= j

Key(chat_id, session_id) == <<chat_id, session_id>>

Keys == {Key(sessions[i].chat_id, sessions[i].session_id) : i \in DOMAIN sessions}

Stored(k) == load_session(sessions, k[1], k[2])

---------------------------------------------------------------------------
(* The Messaging Gateway: every call may fail *)

Call(call, to, text, ok) == [call |-> call, to |-> to, text |-> text, ok |-> ok]

(* An exception that leaves the handler: the worker drops the update *)
Raise(what) == Call("raise", 0, Text(what, 0, 0), FALSE)

PollOutcomes == {"poll", "fallback", "raise"}

Plans == [1..MaxQuestions -> PollOutcomes]

AllPolls == [i \in 1..MaxQuestions |-> "poll"]

(* One way to name each Gateway behaviour: outcomes the handler never gets
   to see (after an exception, beyond the last question) are left at success *)
Canonical(n, plan, ackOk, infoOk) ==
    /\ \A i \in 1..MaxQuestions : i > n => plan[i] = "poll"
    /\ ~ackOk => plan = AllPolls /\ infoOk
    /\ \A i \in 1..MaxQuestions :
          plan[i] = "raise" => infoOk /\ \A j \in 1..MaxQuestions : j > i => plan[j] = "poll"

(* The Gateway behaviours a handler can meet, each named once *)
GatewayRuns ==
    {g \in [plan : Plans, ackOk : BOOLEAN, infoOk : BOOLEAN] :
        Canonical(MaxQuestions, g.plan, g.ackOk, g.infoOk)}

(* The distribution loop of on_set_duration and handle_custom_duration.
   plan[i] says how the Gateway treats question i: the poll is created, the
   poll fails and the fallback message is sent, or both fail and the
   exception of the fallback leaves the handler.  A stored element that is
   not a question record raises at q.get before any Gateway call. *)
RECURSIVE Distribute(_, _, _, _, _, _)
Distribute(chat_id, session_id, questions, plan, idx, acc) ==
    IF idx > Len(questions) \/ acc.raised THEN acc
    ELSE IF ~IsQuestion(questions[idx])
    THEN [acc EXCEPT !.raised = TRUE, !.sent = Append(acc.sent, Raise("AttributeError"))]
    ELSE LET qtext == questions[idx].question
             poll_id == Len(acc.polls) + 1
             next ==
               CASE plan[idx] = "poll" ->
                      [polls |-> map_poll_to_q(acc.polls, chat_id, poll_id, session_id, idx - 1),
                       sent |-> Append(acc.sent, Call("send_poll", chat_id, qtext, TRUE)),
                       raised |-> FALSE]
                 [] plan[idx] = "fallback" ->
                      [polls |-> acc.polls,
                       sent |-> acc.sent \o <<Call("send_poll", chat_id, qtext, FALSE),
                                              Call("send_message", chat_id, qtext, TRUE)>>,
                       raised |-> FALSE]
                 [] OTHER ->
                      [polls |-> acc.polls,
                       sent |-> acc.sent \o <<Call("send_poll", chat_id, qtext, FALSE),
                                              Call("send_message", chat_id, qtext, FALSE),
                                              Raise("ApiException")>>,
                       raised |-> TRUE]
         IN  Distribute(chat_id, session_id, questions, plan, idx + 1, next)

(* threading.Timer(delay, end_quiz(session_id, chat_id)).start() *)
Timer(session_id, chat_id, end_ts) ==
    [session_id |-> session_id, chat_id |-> chat_id, due |-> now + Max(1, end_ts - now)]

---------------------------------------------------------------------------
(* handle_document *)

DocKinds == {"not_pdf", "extract_error", "pdf"}

(* The oracle pre-computes correct_index and explanation of every question *)
Precompute(mcqs) ==
    [i \in DOMAIN mcqs |->
        LET a == get_answer_with_gemini(mcqs[i].question, mcqs[i].options)
        IN  [mcqs[i] EXCEPT !.correct_index = a[1], !.explanation = a[2]]]

handle_document_calls(chat_id, kind, n) ==
    CASE kind = "not_pdf" ->
           <<Call("reply_to", chat_id, Text("Please upload a PDF file.", 0, 0), TRUE)>>
      [] kind = "extract_error" ->
           <<Call("reply_to", chat_id, Text("PDF received. Parsing...", 0, 0), TRUE),
             Call("send_message", chat_id, Text("Error extracting text", 0, 0), TRUE)>>
      [] OTHER ->
           <<Call("reply_to", chat_id, Text("PDF received. Parsing...", 0, 0), TRUE),
             IF parse_mcqs_from_text(n) = <<>>
             THEN Call("send_message", chat_id, Text("No MCQs detected.", 0, 0), TRUE)
             ELSE Call("send_message", chat_id,
                       Text("Parsed questions. Set quiz duration (minutes):", n, 0), TRUE)>>

handle_document(chat_id, kind, n) ==
    /\ inflight = {}
    /\ UNCHANGED <<polls_map, timers, now, ended, starts, custom, inflight, finished>>
    /\ LET mcqs == parse_mcqs_from_text(n)
           session_id == SessionId(now)
       IN  IF kind # "pdf" \/ mcqs = <<>>
           THEN UNCHANGED <<sessions, created>>
           ELSE /\ sessions' = save_session(sessions, chat_id, session_id,
                                            Precompute(mcqs), 0, EmptyDict, 0, 0)
                /\ created' = Put(created, Key(chat_id, session_id), Precompute(mcqs))

---------------------------------------------------------------------------
(* on_set_duration *)

(* int(val) of the callback data of the buttons [5,10,15,20,30,45,60] *)
ButtonMinutes ==
    ("5" :> 5) @@ ("10" :> 10) @@ ("15" :> 15) @@ ("20" :> 20) @@
    ("30" :> 30) @@ ("45" :> 45) @@ ("60" :> 60)

(* Lines 339-359 and 393-409: fix the timestamps, reset the scores, confirm,
   distribute, announce, arm the timer.  A failing confirmation, fallback or
   announcement raises out of the handler after the session was saved. *)
StartQuizRun(chat_id, session_id, questions, minutes, ack, plan, ackOk, infoOk) ==
    LET start_ts == now
        end_ts == start_ts + minutes * 60
        d == Distribute(chat_id, session_id, questions, plan, 1,
                        [polls |-> polls_map, sent |-> <<>>, raised |-> FALSE])
        confirm == Call(ack, chat_id, Text("Quiz will run. Sending questions now!",
                                           minutes, Len(questions)), ackOk)
        info == Call("send_message", chat_id, Text("Quiz started", end_ts, 0), infoOk)
        saved == save_session(sessions, chat_id, session_id, questions, 0,
                              EmptyDict, start_ts, end_ts)
    IN  IF ~ackOk
        THEN [sessions |-> saved, polls |-> polls_map, timers |-> timers,
              sent |-> <<confirm, Raise("ApiException")>>]
        ELSE IF d.raised
        THEN [sessions |-> saved, polls |-> d.polls, timers |-> timers,
              sent |-> <<confirm>> \o d.sent]
        ELSE IF ~infoOk
        THEN [sessions |-> saved, polls |-> d.polls, timers |-> timers,
              sent |-> <<confirm>> \o d.sent \o <<info, Raise("ApiException")>>]
        ELSE [sessions |-> saved, polls |-> d.polls,
              timers |-> timers (+) SetToBag({Timer(session_id, chat_id, end_ts)}),
              sent |-> <<confirm>> \o d.sent \o <<info>>]

StartQuiz(chat_id, session_id, questions, minutes, ack, plan, ackOk, infoOk) ==
    LET run == StartQuizRun(chat_id, session_id, questions, minutes, ack, plan, ackOk, infoOk)
    IN  /\ Canonical(Len(questions), plan, ackOk, infoOk)
        /\ starts' = starts + 1
        /\ sessions' = run.sessions
        /\ polls_map' = run.polls
        /\ timers' = run.timers

on_set_duration_calls(chat_id, session_id, val, plan, ackOk, infoOk) ==
    LET session == load_session(sessions, chat_id, session_id)
    IN  IF val = "custom"
        THEN <<Call("answer_callback_query", chat_id,
                    Text("Please send the number of minutes", 0, 0), ackOk)>>
             \o (IF ackOk THEN <<>> ELSE <<Raise("ApiException")>>)
        ELSE IF ~session.found
        THEN <<Call("answer_callback_query", chat_id, Text("Session not found.", 0, 0), TRUE)>>
        ELSE StartQuizRun(chat_id, session_id, session.questions, ButtonMinutes[val],
                          "answer_callback_query", plan, ackOk, infoOk).sent

on_set_duration(chat_id, session_id, val, plan, ackOk, infoOk) ==
    /\ inflight = {}
    /\ Key(chat_id, session_id) \in DOMAIN created
    /\ UNCHANGED <<now, created, ended, inflight, finished>>
    /\ IF val = "custom"
       THEN /\ plan = AllPolls /\ infoOk
            /\ IF ackOk
               THEN /\ sessions' = save_session(sessions, chat_id, session_id,
                                                <<AWAITING_CUSTOM>>, 0, EmptyDict, 0, 0)
                    /\ custom' = [custom EXCEPT ![chat_id] = session_id]
               ELSE UNCHANGED <<sessions, custom>>
            /\ UNCHANGED <<polls_map, timers, starts>>
       ELSE LET session == load_session(sessions, chat_id, session_id)
            IN  IF ~session.found
                THEN /\ plan = AllPolls /\ infoOk /\ ackOk
                     /\ UNCHANGED <<sessions, polls_map, timers, starts, custom>>
                ELSE /\ StartQuiz(chat_id, session_id, session.questions, ButtonMinutes[val],
                                  "answer_callback_query", plan, ackOk, infoOk)
                     /\ UNCHANGED custom

---------------------------------------------------------------------------
(* handle_custom_duration: a message whose text is all digits *)

(* CustomRoute without the upper limit of line 376 *)
CustomRouteNoUpperLimit(chat_id, minutes) ==
    LET r == LatestRow(sessions, chat_id)
        rr == LatestRealRow(sessions, chat_id)
    IN  IF minutes < 0 THEN "not_digits"
        ELSE IF r = 0 THEN "no_session"
        ELSE IF ~IsAwaiting(sessions[r].questions) THEN "not_awaiting"
        ELSE IF minutes <= 0 THEN "bad_duration"
        ELSE IF rr = 0 THEN "resend_pdf"
        ELSE "start"

(* Lines 362-391: what the handler decides before it starts anything.  The
   filter of line 362 passes digit-only texts; a text with a sign goes to
   the fallback handler, which only replies. *)
CustomRoute(chat_id, minutes) ==
    LET r == LatestRow(sessions, chat_id)
        rr == LatestRealRow(sessions, chat_id)
    IN  IF minutes < 0 THEN "not_digits"
        ELSE IF r = 0 THEN "no_session"
        ELSE IF ~IsAwaiting(sessions[r].questions) THEN "not_awaiting"
        ELSE IF minutes <= 0 \/ minutes > 1440 THEN "bad_duration"
        ELSE IF rr = 0 THEN "resend_pdf"
        ELSE "start"

RealSessionId(chat_id) == sessions[LatestRealRow(sessions, chat_id)].session_id

handle_custom_duration_calls(chat_id, minutes, plan, ackOk, infoOk) ==
    LET route == CustomRoute(chat_id, minutes)
    IN  CASE route \in {"no_session", "not_awaiting"} -> <<>>
          [] route = "not_digits" ->
               <<Call("send_message", chat_id,
                      Text("Send /quiz and then upload your MCQ PDF, or use /help.", 0, 0), TRUE)>>
          [] route = "bad_duration" ->
               <<Call("reply_to", chat_id,
                      Text("Please provide a reasonable duration in minutes (1-1440).", 0, 0), TRUE)>>
          [] route = "resend_pdf" ->
               <<Call("reply_to", chat_id,
                      Text("Couldn't find parsed questions session. Please resend PDF.", 0, 0), TRUE)>>
          [] OTHER ->
               StartQuizRun(chat_id, RealSessionId(chat_id),
                            load_session(sessions, chat_id, RealSessionId(chat_id)).questions,
                            minutes, "reply_to", plan, ackOk, infoOk).sent

handle_custom_duration(chat_id, minutes, plan, ackOk, infoOk) ==
    /\ inflight = {}
    /\ UNCHANGED <<now, created, ended, inflight, finished>>
    /\ LET route == CustomRoute(chat_id, minutes)
       IN  IF route \in {"not_digits", "no_session", "not_awaiting", "bad_duration"}
           THEN /\ plan = AllPolls /\ infoOk /\ ackOk
                /\ UNCHANGED <<sessions, polls_map, timers, starts, custom>>
           ELSE IF route = "resend_pdf"
           THEN /\ plan = AllPolls /\ infoOk /\ ackOk
                /\ custom' = [custom EXCEPT ![chat_id] = NoSid]
                /\ UNCHANGED <<sessions, polls_map, timers, starts>>
           ELSE /\ StartQuiz(chat_id, RealSessionId(chat_id),
                             load_session(sessions, chat_id, RealSessionId(chat_id)).questions,
                             minutes, "reply_to", plan, ackOk, infoOk)
                /\ custom' = [custom EXCEPT ![chat_id] = NoSid]

---------------------------------------------------------------------------
(* handle_poll_answer *)

NewScore == [correct |-> 0, wrong |-> 0, answers |-> EmptyDict]

(* ScoreAnswer with the test of line 184 reduced to chosen == correct_idx:
   no option against an unresolved index compares equal *)
ScoreAnswerNullMatches(scores, user_id, q_index, chosen, correct_idx) ==
    LET user_scores == Get(scores, user_id, NewScore)
        hit == chosen = correct_idx
    IN  Put(scores, user_id,
            [correct |-> user_scores.correct + (IF hit THEN 1 ELSE 0),
             wrong |-> user_scores.wrong + (IF hit THEN 0 ELSE 1),
             answers |-> Put(user_scores.answers, q_index, chosen)])

(* Lines 179-189: the scores after one answer event *)
ScoreAnswer(scores, user_id, q_index, chosen, correct_idx) ==
    LET user_scores == Get(scores, user_id, NewScore)
        hit == chosen # None /\ correct_idx # None /\ chosen = correct_idx
    IN  Put(scores, user_id,
            [correct |-> user_scores.correct + (IF hit THEN 1 ELSE 0),
             wrong |-> user_scores.wrong + (IF hit THEN 0 ELSE 1),
             answers |-> Put(user_scores.answers, q_index, chosen)])

(* questions[q_index] is a question record: indexing and .get do not raise *)
ValidIndex(questions, q_index) ==
    /\ q_index + 1 \in DOMAIN questions
    /\ IsQuestion(questions[q_index + 1])

RECURSIVE Attempts(_)
Attempts(scores) ==
    IF DOMAIN scores = {} THEN 0
    ELSE LET u == CHOOSE x \in DOMAIN scores : TRUE
         IN  scores[u].correct + scores[u].wrong
             + Attempts([x \in DOMAIN scores \ {u} |-> scores[x]])

(* The answers counted in the whole store: the model caps them *)
RECURSIVE TotalAttempts(_)
TotalAttempts(rows) ==
    IF rows = <<>> THEN 0 ELSE Attempts(Head(rows).scores) + TotalAttempts(Tail(rows))

(* The handler gets to save_session: the session exists and line 180 does not raise *)
Completes(mapinfo, session) ==
    session.found /\ ValidIndex(session.questions, mapinfo.q_index)

(* Lines 174-190 on a loaded session: the rows after save_session, or the
   rows as they are when the handler returned early or raised *)
AnswerSaved(rows, mapinfo, session, user_id, chosen) ==
    IF Completes(mapinfo, session)
    THEN save_session(rows, mapinfo.chat_id, mapinfo.session_id, session.questions,
                      session.current_q,
                      ScoreAnswer(session.scores, user_id, mapinfo.q_index, chosen,
                                  session.questions[mapinfo.q_index + 1].correct_index),
                      session.start_ts, session.end_ts)
    ELSE rows

MapInfo(poll_id) == polls_map[lookup_poll(polls_map, poll_id)]

PollSession(poll_id) ==
    load_session(sessions, MapInfo(poll_id).chat_id, MapInfo(poll_id).session_id)

handle_poll_answer_calls(user_id, poll_id, chosen) ==
    IF lookup_poll(polls_map, poll_id) # 0 /\ PollSession(poll_id).found
       /\ ~Completes(MapInfo(poll_id), PollSession(poll_id))
    THEN <<Raise("Exception")>>
    ELSE <<>>

handle_poll_answer(user_id, poll_id, chosen) ==
    /\ inflight = {}
    /\ lookup_poll(polls_map, poll_id) # 0
    /\ sessions' = AnswerSaved(sessions, MapInfo(poll_id), PollSession(poll_id), user_id, chosen)
    /\ UNCHANGED <<polls_map, timers, now, created, ended, starts, custom,
                   inflight, finished>>

---------------------------------------------------------------------------
(* end_quiz, run by a timer *)

RECURSIVE SeqOfSet(_)
SeqOfSet(S) ==
    IF S = {} THEN <<>>
    ELSE LET x == CHOOSE y \in S : \A z \in S : y <= z
         IN  <<x>> \o SeqOfSet(S \ {x})

(* end_quiz_calls with the private messages outside a try: the first one
   that fails raises out of end_quiz *)
end_quiz_calls_unguarded(chat_id, session, dmOk, sumOk) ==
    LET users == SeqOfSet(DOMAIN session.scores)
        dm(u) == Call("send_message", u,
                      Text("Quiz Finished! Your results", session.scores[u].correct,
                           session.scores[u].wrong), u \in dmOk)
        failed == {i \in 1..Len(users) : users[i] \notin dmOk}
        stop == IF failed = {} THEN 0 ELSE CHOOSE i \in failed : \A j \in failed : i <= j
        summary == IF DOMAIN session.scores # {}
                   THEN Text("Quiz ended! Results summary", session.end_ts,
                             Cardinality(DOMAIN session.scores))
                   ELSE Text("Quiz ended! No participants answered.", 0, 0)
    IN  IF ~session.found THEN <<>>
        ELSE IF stop # 0
        THEN [i \in 1..stop |-> dm(users[i])] \o <<Raise("ApiException")>>
        ELSE [i \in 1..Len(users) |-> dm(users[i])]
             \o <<Call("send_message", chat_id, summary, sumOk)>>

(* Lines 200-226: one private message per user with a score entry, each
   failure swallowed, then the aggregate summary, its failure swallowed *)
end_quiz_calls(chat_id, session, dmOk, sumOk) ==
    LET users == SeqOfSet(DOMAIN session.scores)
        dm(u) == Call("send_message", u,
                      Text("Quiz Finished! Your results", session.scores[u].correct,
                           session.scores[u].wrong), u \in dmOk)
        summary == IF DOMAIN session.scores # {}
                   THEN Text("Quiz ended! Results summary", session.end_ts,
                             Cardinality(DOMAIN session.scores))
                   ELSE Text("Quiz ended! No participants answered.", 0, 0)
    IN  IF ~session.found THEN <<>>
        ELSE [i \in 1..Len(users) |-> dm(users[i])]
             \o <<Call("send_message", chat_id, summary, sumOk)>>

(* Line 228 on a loaded session *)
EndSaved(rows, chat_id, session_id, session) ==
    IF session.found
    THEN save_session(rows, chat_id, session_id, session.questions, session.current_q,
                      session.scores, session.start_ts, session.end_ts)
    ELSE rows

end_quiz(t, dmOk, sumOk) ==
    /\ inflight = {}
    /\ BagIn(t, timers)
    /\ LET session == load_session(sessions, t.chat_id, t.session_id)
           k == Key(t.chat_id, t.session_id)
       IN  /\ session.found => dmOk \subseteq DOMAIN session.scores
           /\ ~session.found => dmOk = {} /\ sumOk
           /\ timers' = timers (-) SetToBag({t})
           /\ now' = Max(now, t.due)
           /\ sessions' = EndSaved(sessions, t.chat_id, t.session_id, session)
           /\ ended' = IF session.found THEN ended \cup {k} ELSE ended
    /\ UNCHANGED <<polls_map, created, starts, custom, inflight, finished>>

---------------------------------------------------------------------------
(* /result and /solve: they read the store and reply *)

(* cmd_result_calls with scores.get(user_key, {}) and no check of line 428:
   a user without an entry gets a tally of zero *)
cmd_result_calls_zero_tally(chat_id, user_id) ==
    LET r == LatestRow(sessions, chat_id)
        session == load_session(sessions, chat_id, sessions[r].session_id)
        us == Get(session.scores, user_id, NewScore)
        time_taken == IF session.start_ts # 0
                      THEN (Min(now, session.end_ts) - session.start_ts) \div 60
                      ELSE None
    IN  IF r = 0
        THEN <<Call("reply_to", chat_id, Text("No session found.", 0, 0), TRUE)>>
        ELSE <<Call("send_message", chat_id,
                    <<"Your result so far", us.correct, us.wrong, us.correct + us.wrong,
                      Len(session.questions), time_taken>>, TRUE)>>

cmd_result_calls(chat_id, user_id) ==
    LET r == LatestRow(sessions, chat_id)
        session == load_session(sessions, chat_id, sessions[r].session_id)
        us == session.scores[user_id]
        time_taken == IF session.start_ts # 0
                      THEN (Min(now, session.end_ts) - session.start_ts) \div 60
                      ELSE None
    IN  IF r = 0
        THEN <<Call("reply_to", chat_id, Text("No session found.", 0, 0), TRUE)>>
        ELSE IF user_id \notin DOMAIN session.scores
        THEN <<Call("reply_to", chat_id, Text("You have not answered any polls yet.", 0, 0), TRUE)>>
        ELSE <<Call("send_message", chat_id,
                    <<"Your result so far", us.correct, us.wrong, us.correct + us.wrong,
                      Len(session.questions), time_taken>>, TRUE)>>

cmd_result(chat_id, user_id) ==
    /\ inflight = {}
    /\ cmd_result_calls(chat_id, user_id) # <<>>
    /\ UNCHANGED vars

SolveArgs == {"missing", "not_int", "int"}

cmd_solve_calls(chat_id, arg, n) ==
    LET q_no == n - 1
        r == LatestRow(sessions, chat_id)
        questions == sessions[r].questions
    IN  IF arg = "missing"
        THEN <<Call("reply_to", chat_id, Text("Usage: /solve {question_number}", 0, 0), TRUE)>>
        ELSE IF arg = "not_int"
        THEN <<Call("reply_to", chat_id, Text("Please provide a valid question number.", 0, 0), TRUE)>>
        ELSE IF r = 0
        THEN <<Call("reply_to", chat_id, Text("No active session found.", 0, 0), TRUE)>>
        ELSE IF q_no < 0 \/ q_no >= Len(questions)
        THEN <<Call("reply_to", chat_id, Text("Invalid question number.", 0, 0), TRUE)>>
        ELSE IF ~IsQuestion(questions[q_no + 1])
        THEN <<Raise("TypeError")>>
        ELSE <<Call("send_message", chat_id,
                    <<"Question", q_no + 1, questions[q_no + 1].question,
                      questions[q_no + 1].options,
                      get_answer_with_gemini(questions[q_no + 1].question,
                                             questions[q_no + 1].options)[2]>>, TRUE)>>

cmd_solve(chat_id, arg, n) ==
    /\ inflight = {}
    /\ cmd_solve_calls(chat_id, arg, n) # <<>>
    /\ UNCHANGED vars

---------------------------------------------------------------------------
(* time.time() moves on *)

Tick ==
    /\ inflight = {}
    /\ now' = now + 1
    /\ UNCHANGED <<sessions, polls_map, timers, created, ended, starts,
                   custom, inflight, finished>>

---------------------------------------------------------------------------
(* The bot with one handler running at a time *)

Init ==
    /\ sessions = <<>>
    /\ polls_map = <<>>
    /\ timers = EmptyBag
    /\ now = 1
    /\ created = EmptyDict
    /\ ended = {}
    /\ starts = 0
    /\ custom = [c \in Chats |-> NoSid]
    /\ inflight = {}
    /\ finished = {}

(* The buttons pressed in the model *)
Buttons == {"5", "custom"}

(* A duration selection or a custom duration that starts a quiz *)
Starts(chat_id, session_id, val) ==
    val # "custom" /\ HasSession(sessions, chat_id, session_id)

(* The events of the bot, one handler at a time, under the caps of the
   model: the stored sessions, the quiz starts (and with them the polls, the
   timers and the clock), the answers counted in the store, the clock ticks
   before the first deadline. *)
NextWith(maxSessions, maxStarts, maxAnswers) ==
    \/ \E c \in Chats, kind \in DocKinds, n \in 0..MaxQuestions :
          /\ kind # "pdf" => n = 0
          /\ now <= MaxClock
          /\ HasSession(sessions, c, SessionId(now)) \/ Len(sessions) < maxSessions
          /\ handle_document(c, kind, n)
    \/ \E k \in DOMAIN created, val \in Buttons, g \in GatewayRuns :
          /\ Starts(k[1], k[2], val) => starts < maxStarts
          /\ on_set_duration(k[1], k[2], val, g.plan, g.ackOk, g.infoOk)
    \/ \E c \in Chats, m \in CustomTexts, g \in GatewayRuns :
          /\ CustomRoute(c, m) = "start" => starts < maxStarts
          /\ handle_custom_duration(c, m, g.plan, g.ackOk, g.infoOk)
    \/ \E u \in Users, p \in 1..Len(polls_map), chosen \in Choices :
          /\ TotalAttempts(sessions) < maxAnswers
          /\ handle_poll_answer(u, p, chosen)
    \/ \E t \in BagToSet(timers), dmOk \in SUBSET Users, sumOk \in BOOLEAN :
          end_quiz(t, dmOk, sumOk)
    \/ \E c \in Chats, u \in Users : cmd_result(c, u)
    \/ \E c \in Chats, arg \in SolveArgs, n \in 0..(MaxQuestions + 1) :
          /\ arg # "int" => n = 0
          /\ cmd_solve(c, arg, n)
    \/ now < MaxClock /\ Tick

(* The whole bot: several documents in a chat *)
Next == NextWith(MaxSessions, MaxStarts, MaxAnswers)

Spec == Init /\ [][Next]_vars

(* One document, with more starts and answers *)
NextQuiz == NextWith(1, QuizStarts, QuizAnswers)

SpecQuiz == Init /\ [][NextQuiz]_vars

(* One document, timers that fire: a threading.Timer runs its callback *)
FairSpecQuiz ==
    SpecQuiz /\ WF_vars(\E t \in BagToSet(timers), dmOk \in SUBSET Users, sumOk \in BOOLEAN :
                            end_quiz(t, dmOk, sumOk))

---------------------------------------------------------------------------
(* The handlers as the threads run them: handle_poll_answer on the worker
   threads of the bot, end_quiz on the thread of its timer, each a load of
   the session, then a save of what was computed from the loaded copy *)

AnswerLoad(user_id, poll_id, chosen) ==
    /\ lookup_poll(polls_map, poll_id) # 0
    /\ Cardinality({h \in inflight : h.kind = "answer"}) < NumWorkers
    /\ inflight' = inflight \cup
          {[kind |-> "answer", user_id |-> user_id, mapinfo |-> MapInfo(poll_id),
            chosen |-> chosen, session |-> PollSession(poll_id)]}
    /\ UNCHANGED <<sessions, polls_map, timers, now, created, ended, starts, custom, finished>>

AnswerSave(h) ==
    /\ h \in inflight
    /\ h.kind = "answer"
    /\ sessions' = AnswerSaved(sessions, h.mapinfo, h.session, h.user_id, h.chosen)
    /\ inflight' = inflight \ {h}
    /\ finished' = IF Completes(h.mapinfo, h.session)
                   THEN finished \cup {[chat_id |-> h.mapinfo.chat_id,
                                        session_id |-> h.mapinfo.session_id,
                                        user_id |-> h.user_id, q_index |-> h.mapinfo.q_index]}
                   ELSE finished
    /\ UNCHANGED <<polls_map, timers, now, created, ended, starts, custom>>

EndLoad(t) ==
    /\ BagIn(t, timers)
    /\ timers' = timers (-) SetToBag({t})
    /\ now' = Max(now, t.due)
    /\ inflight' = inflight \cup
          {[kind |-> "end", t |-> t, session |-> load_session(sessions, t.chat_id, t.session_id)]}
    /\ UNCHANGED <<sessions, polls_map, created, ended, starts, custom, finished>>

EndSave(h) ==
    /\ h \in inflight
    /\ h.kind = "end"
    /\ sessions' = EndSaved(sessions, h.t.chat_id, h.t.session_id, h.session)
    /\ ended' = IF h.session.found THEN ended \cup {Key(h.t.chat_id, h.t.session_id)} ELSE ended
    /\ inflight' = inflight \ {h}
    /\ UNCHANGED <<polls_map, timers, now, created, starts, custom, finished>>

(* A quiz that runs: a document of one question arrived at second 1, the
   5 min button was pressed and every Gateway call succeeded *)
RunningQuiz ==
    LET qs == Precompute(parse_mcqs_from_text(1))
        sid == SessionId(1)
    IN  /\ sessions = save_session(<<>>, 1, sid, qs, 0, EmptyDict, 1, 1 + 5 * 60)
        /\ polls_map = map_poll_to_q(<<>>, 1, 1, sid, 0)
        /\ timers = SetToBag({[session_id |-> sid, chat_id |-> 1, due |-> 1 + 5 * 60]})
        /\ now = 1
        /\ created = Put(EmptyDict, Key(1, sid), qs)
        /\ ended = {}
        /\ starts = 1
        /\ custom = [c \in Chats |-> NoSid]
        /\ inflight = {}
        /\ finished = {}

InFlightAttempts == Cardinality({h \in inflight : h.kind = "answer"})

NextConc ==
    \/ \E u \in Users, p \in 1..Len(polls_map), chosen \in Choices :
          /\ TotalAttempts(sessions) + InFlightAttempts < ConcAnswers
          /\ AnswerLoad(u, p, chosen)
    \/ \E h \in inflight : AnswerSave(h)
    \/ \E t \in BagToSet(timers) : EndLoad(t)
    \/ \E h \in inflight : EndSave(h)

SpecConc == RunningQuiz /\ [][NextConc]_vars

---------------------------------------------------------------------------
(* Readings of the store used by the properties *)

Scores(k) == Stored(k).scores

(* The user's counters in a stored session, <<0, 0>> without an entry *)
Tally(rows, chat_id, session_id, user_id) ==
    LET sc == load_session(rows, chat_id, session_id).scores
    IN  <<Get(sc, user_id, NewScore).correct, Get(sc, user_id, NewScore).wrong>>

(* The store records this option for the user and the question of the poll *)
RecordedIs(rows, mapinfo, user_id, chosen) ==
    LET sc == load_session(rows, mapinfo.chat_id, mapinfo.session_id).scores
        answers == Get(sc, user_id, NewScore).answers
    IN  mapinfo.q_index \in DOMAIN answers /\ answers[mapinfo.q_index] = chosen

PollIds == 1..Len(polls_map)

QuizKeys == {Key(c, SessionId(t)) : c \in Chats, t \in 1..MaxClock}

Started(k) == HasSession(sessions, k[1], k[2]) /\ Stored(k).start_ts > 0

---------------------------------------------------------------------------
(* The scoring of lines 179-189 on stored questions of either kind.  The
   placeholder oracle returns index 0 on both of its paths, so that the bot
   as it stands stores no unresolved index; line 123 returns None, and the
   scoring is run here on a running quiz of two questions whose stored
   correct_index is, each, None or 0. *)

OracleIndexes == {None, 0}

ScoredQuiz ==
    \E ci \in [1..2 -> OracleIndexes] :
        LET qs == [i \in 1..2 |->
                     [parse_mcqs_from_text(2)[i] EXCEPT !.correct_index = ci[i],
                                                        !.explanation = "demo"]]
            sid == SessionId(1)
        IN  /\ sessions = save_session(<<>>, 1, sid, qs, 0, EmptyDict, 1, 1 + 5 * 60)
            /\ polls_map = map_poll_to_q(map_poll_to_q(<<>>, 1, 1, sid, 0), 1, 2, sid, 1)
            /\ timers = SetToBag({[session_id |-> sid, chat_id |-> 1, due |-> 1 + 5 * 60]})
            /\ now = 1
            /\ created = Put(EmptyDict, Key(1, sid), qs)
            /\ ended = {}
            /\ starts = 1
            /\ custom = [c \in Chats |-> NoSid]
            /\ inflight = {}
            /\ finished = {}

NextScore ==
    \E u \in Users, p \in 1..Len(polls_map), chosen \in Choices :
        /\ TotalAttempts(sessions) < ScoreAnswers
        /\ handle_poll_answer(u, p, chosen)

SpecScore == ScoredQuiz /\ [][NextScore]_vars

(* The correct index stored for the question of a poll *)
CorrectIndex(poll_id) ==
    PollSession(poll_id).questions[MapInfo(poll_id).q_index + 1].correct_index

(* The session /result and /solve address in a chat: the row of the chat
   with the largest rowid (lines 252-257 and 415-420) *)
Addressed(chat_id) == sessions[LatestRow(sessions, chat_id)].session_id

(* The session of the chat that handle_document created last: identifiers
   carry the second of their creation *)
CreatedLast(chat_id) ==
    LET T == {t \in 1..MaxClock : Key(chat_id, SessionId(t)) \in DOMAIN created}
    IN  SessionId(CHOOSE t \in T : \A x \in T : x <= t)

---------------------------------------------------------------------------
(* C1: once an answer of a user to a question is recorded, an answer event
   of the same user for the same question with the same option leaves the
   user's correct and wrong counters as they are. *)
C1_ResubmitKeepsTally ==
    [][\A u \in Users, p \in PollIds, ch \in Choices :
          (/\ RecordedIs(sessions, MapInfo(p), u, ch)
           /\ handle_poll_answer(u, p, ch))
          => Tally(sessions', MapInfo(p).chat_id, MapInfo(p).session_id, u)
             = Tally(sessions, MapInfo(p).chat_id, MapInfo(p).session_id, u)]_vars

(* C2: in every stored session, for every user with a score entry,
   correct + wrong is the number of distinct question indices recorded in
   the user's answers mapping. *)
C2_CountersMatchAnswers ==
    \A i \in DOMAIN sessions : \A u \in DOMAIN sessions[i].scores :
        sessions[i].scores[u].correct + sessions[i].scores[u].wrong
        = Cardinality(DOMAIN sessions[i].scores[u].answers)

(* C3: when end_quiz has already run for a session, a further run of it
   (another armed timer of the session firing) sends nothing. *)
C3_SecondEndQuizSilent ==
    \A t \in BagToSet(timers) :
        Key(t.chat_id, t.session_id) \in ended
        => \A dmOk \in SUBSET Users, sumOk \in BOOLEAN :
              end_quiz_calls(t.chat_id, load_session(sessions, t.chat_id, t.session_id),
                             dmOk, sumOk) = <<>>

(* C4: every session whose timestamps a duration selection has fixed
   eventually has end_quiz run for it, whatever Gateway call fails. *)
C4_StartedEventuallyEnds ==
    \A k \in QuizKeys : [](Started(k) => <>(k \in ended))

(* C5: the questions stored for a (chat, session id) are the questions
   handle_document stored when it created the session. *)
C5_QuestionsFixed ==
    \A k \in Keys : Stored(k).questions = created[k]

(* C6: after "Custom" was pressed for session S, a message with a number of
   minutes in 1..1440 starts S itself: with the questions parsed for S, with
   the new poll references and the new timer pointing to S. *)
C6_CustomStartsSameSession ==
    [][\A c \in Chats, m \in CustomTexts, g \in GatewayRuns :
          (/\ custom[c] # NoSid
           /\ LatestRow(sessions, c) # 0
           /\ sessions[LatestRow(sessions, c)].session_id = custom[c]
           /\ m >= 1 /\ m <= 1440
           /\ handle_custom_duration(c, m, g.plan, g.ackOk, g.infoOk))
          => /\ CustomRoute(c, m) = "start"
             /\ load_session(sessions', c, custom[c]).questions = created[Key(c, custom[c])]
             /\ load_session(sessions', c, custom[c]).start_ts > 0
             /\ \A i \in DOMAIN polls_map' :
                   i > Len(polls_map) => polls_map'[i].session_id = custom[c]
             /\ \A t \in BagToSet(timers') :
                   CopiesIn(t, timers') > CopiesIn(t, timers) => t.session_id = custom[c]]_vars

(* C7: a score entry is never removed, and a duration button pressed for a
   session that already runs leaves its scores, the poll references and the
   timers as they are. *)
C7_ScoresKept ==
    [][/\ \A k \in Keys : \A u \in DOMAIN Scores(k) :
             u \in DOMAIN load_session(sessions', k[1], k[2]).scores
       /\ \A k \in DOMAIN created, val \in Buttons \ {"custom"}, g \in GatewayRuns :
             (Started(k) /\ on_set_duration(k[1], k[2], val, g.plan, g.ackOk, g.infoOk))
             => /\ load_session(sessions', k[1], k[2]).scores = Scores(k)
                /\ polls_map' = polls_map
                /\ timers' = timers]_vars

(* C8: once end_quiz has run for a session, no event changes the session's
   stored questions, scores, start timestamp or end timestamp. *)
C8_EndedFrozen ==
    [][\A k \in ended :
          HasSession(sessions, k[1], k[2])
          => load_session(sessions', k[1], k[2]) = Stored(k)]_vars

(* C9: when no handler is running, every answer whose handler has returned
   is in the stored scores of its session. *)
C9_NoLostAnswer ==
    inflight = {}
    => \A f \in finished :
          LET sc == load_session(sessions, f.chat_id, f.session_id).scores
          IN  f.user_id \in DOMAIN sc /\ f.q_index \in DOMAIN sc[f.user_id].answers

(* C10: an answer event with no chosen option changes neither the correct
   nor the wrong counter of the user. *)
C10_AbstainCountsNothing ==
    [][\A u \in Users, p \in PollIds :
          (/\ Completes(MapInfo(p), PollSession(p))
           /\ handle_poll_answer(u, p, None))
          => Tally(sessions', MapInfo(p).chat_id, MapInfo(p).session_id, u)
             = Tally(sessions, MapInfo(p).chat_id, MapInfo(p).session_id, u)]_vars

(* C11: a document that handle_document accepts gets a session identifier
   that no stored session of the chat has: the store gains one row and every
   session stored before is still there as it was. *)
C11_NewSessionIdIsFresh ==
    [][\A c \in Chats, n \in 1..MaxQuestions :
          handle_document(c, "pdf", n)
          => /\ ~HasSession(sessions, c, SessionId(now))
             /\ Len(sessions') = Len(sessions) + 1
             /\ \A k \in Keys : load_session(sessions', k[1], k[2]) = Stored(k)]_vars

(* C12: every stored session holds at least one element and every element
   of its questions is a parsed question record. *)
C12_SessionsHoldQuestions ==
    \A i \in DOMAIN sessions :
        /\ Len(sessions[i].questions) >= 1
        /\ \A j \in DOMAIN sessions[i].questions : IsQuestion(sessions[i].questions[j])

(* C13: a message of 0, of more than 1440 or of a negative number of
   minutes is rejected: the handler sends no poll and leaves the session
   store, the poll references and the timers as they are.  (The Gateway is taken at its
   best: a run that starts a quiz then sends its polls and arms its timer.) *)
C13_BadDurationRejected ==
    /\ [](\A c \in Chats, m \in CustomTexts :
             (m <= 0 \/ m > 1440)
             => LET calls == handle_custom_duration_calls(c, m, AllPolls, TRUE, TRUE)
                IN  \A i \in DOMAIN calls : calls[i].call \notin {"send_poll", "raise"})
    /\ [][\A c \in Chats, m \in CustomTexts :
             ((m <= 0 \/ m > 1440)
              /\ handle_custom_duration(c, m, AllPolls, TRUE, TRUE))
             => UNCHANGED <<sessions, polls_map, timers>>]_vars

(* C13, witness: the chat awaits a custom duration and has questions to
   start with, so that the entry reaches the range check of line 376 *)
C13_AwaitingWithQuestions ==
    \E c \in Chats :
        /\ CustomRoute(c, 0) = "bad_duration"
        /\ CustomRoute(c, 1441) = "bad_duration"
        /\ CustomRoute(c, 5) = "start"

(* C14: when a duration button starts the distribution for a stored session
   of n questions, a send_poll or a fallback message is attempted for every
   one of the n questions, in order, whatever Gateway calls of the
   distribution fail. *)
C14_EveryQuestionAttempted ==
    \A k \in DOMAIN created, val \in Buttons \ {"custom"}, g \in GatewayRuns :
        LET session == Stored(k)
            calls == on_set_duration_calls(k[1], k[2], val, g.plan, g.ackOk, g.infoOk)
            polls == SelectSeq(calls, LAMBDA x : x.call = "send_poll")
        IN  (/\ session.found
             /\ \A j \in DOMAIN session.questions : IsQuestion(session.questions[j])
             /\ g.ackOk
             /\ Canonical(Len(session.questions), g.plan, g.ackOk, g.infoOk))
            => /\ Len(polls) = Len(session.questions)
               /\ \A j \in DOMAIN polls : polls[j].text = session.questions[j].question

(* C15: when a timer of a stored session fires, end_quiz attempts one
   private result message for every user with a score entry, whichever of
   them fail, then the aggregate summary to the chat; without any score
   entry the aggregate message is the "no participants" text. *)
C15_EndQuizDeliversAll ==
    \A t \in BagToSet(timers) :
        LET session == load_session(sessions, t.chat_id, t.session_id)
        IN  session.found
            => \A dmOk \in SUBSET DOMAIN session.scores, sumOk \in BOOLEAN :
                  LET calls == end_quiz_calls(t.chat_id, session, dmOk, sumOk)
                      last == calls[Len(calls)]
                      users == DOMAIN session.scores
                  IN  /\ Len(calls) = Cardinality(users) + 1
                      /\ \A u \in users :
                            \E i \in 1..(Len(calls) - 1) :
                               /\ calls[i].call = "send_message"
                               /\ calls[i].to = u
                               /\ calls[i].text[1] = "Quiz Finished! Your results"
                               /\ calls[i].ok = (u \in dmOk)
                      /\ last.call = "send_message" /\ last.to = t.chat_id
                      /\ last.text[1] = IF users = {}
                                        THEN "Quiz ended! No participants answered."
                                        ELSE "Quiz ended! Results summary"

(* C15, witness: a timer is armed for a session in which two users have a
   score entry, so that end_quiz has two private messages to attempt *)
C15_TimerWithTwoUsers ==
    \E t \in BagToSet(timers) :
        /\ HasSession(sessions, t.chat_id, t.session_id)
        /\ Cardinality(DOMAIN load_session(sessions, t.chat_id, t.session_id).scores) >= 2

(* C16: in a chat with stored sessions, /result and /solve address the
   session that was created last, whichever sessions were written since. *)
C16_CommandsAddressNewest ==
    \A c \in Chats :
        LatestRow(sessions, c) # 0 => Addressed(c) = CreatedLast(c)

(* C17: /result leaves the session store, the poll references and the
   timers as they are; to a user without a score entry in the addressed
   session it replies "not answered yet", and it never reports a tally of
   zero correct and zero wrong. *)
C17_ResultReadsOnly ==
    /\ [](\A c \in Chats, u \in Users :
             LET calls == cmd_result_calls(c, u)
             IN  /\ Len(calls) = 1
                 /\ calls[1].call # "raise"
                 /\ (LatestRow(sessions, c) # 0
                     /\ u \notin DOMAIN load_session(sessions, c, Addressed(c)).scores)
                    => calls[1].text = Text("You have not answered any polls yet.", 0, 0)
                 /\ ~(/\ calls[1].text[1] = "Your result so far"
                      /\ calls[1].text[2] = 0
                      /\ calls[1].text[3] = 0))
    /\ [][\A c \in Chats, u \in Users :
             cmd_result(c, u) => UNCHANGED <<sessions, polls_map, timers>>]_vars

(* C17, witness: in the addressed session one user has a score entry and
   the other has none *)
C17_OneUserWithoutEntry ==
    \E c \in Chats, u \in Users, v \in Users :
        /\ LatestRow(sessions, c) # 0
        /\ u \notin DOMAIN load_session(sessions, c, Addressed(c)).scores
        /\ v \in DOMAIN load_session(sessions, c, Addressed(c)).scores

(* C18: in a chat with a stored session, /solve with an integer question
   number replies "Invalid question number." or replies with the question,
   its options and the explanation; it does not raise. *)
C18_SolveNeverRaises ==
    \A c \in Chats, n \in 0..(MaxQuestions + 1) :
        LatestRow(sessions, c) # 0
        => LET calls == cmd_solve_calls(c, "int", n)
           IN  /\ Len(calls) = 1
               /\ calls[1].call # "raise"
               /\ \/ calls[1].text = Text("Invalid question number.", 0, 0)
                  \/ calls[1].text[1] = "Question"

(* C19: right after a quiz start by a menu selection of m minutes for a
   stored session whose n questions each got a successful send_poll: the
   stored scores are empty,
   start_ts > 0 and end_ts - start_ts = 60 * m, the poll references of
   before are all still there, unchanged, and n references were appended,
   the i-th for (this chat, this session, question index i - 1). *)
C19_MenuSelectionPostState ==
    [][starts' = starts + 1
       => \A k \in DOMAIN created, val \in Buttons \ {"custom"}, g \in GatewayRuns :
          LET calls == on_set_duration_calls(k[1], k[2], val, g.plan, g.ackOk, g.infoOk)
              n == Len(Stored(k).questions)
              after == load_session(sessions', k[1], k[2])
          IN  (/\ HasSession(sessions, k[1], k[2])
               /\ on_set_duration(k[1], k[2], val, g.plan, g.ackOk, g.infoOk)
               /\ Len(SelectSeq(calls, LAMBDA x : x.call = "send_poll" /\ x.ok)) = n
               /\ \A i \in DOMAIN calls : calls[i].call = "send_poll" => calls[i].ok)
              => /\ after.scores = EmptyDict
                 /\ after.start_ts > 0
                 /\ after.end_ts - after.start_ts = 60 * ButtonMinutes[val]
                 /\ Len(polls_map') = Len(polls_map) + n
                 /\ SubSeq(polls_map', 1, Len(polls_map)) = polls_map
                 /\ \A i \in 1..n :
                       LET ref == polls_map'[Len(polls_map) + i]
                       IN  /\ ref.chat_id = k[1]
                           /\ ref.session_id = k[2]
                           /\ ref.q_index = i - 1]_vars

(* C19, witness: a session whose start is the second one stored: its scores
   are empty and the poll references of both distributions are stored *)
C19_StartedTwice ==
    \E k \in Keys :
        /\ Started(k)
        /\ Scores(k) = EmptyDict
        /\ starts = 2
        /\ \A j \in DOMAIN Stored(k).questions : IsQuestion(Stored(k).questions[j])
        /\ Len(polls_map) = 2 * Len(Stored(k).questions)

(* C20: an answer event, of any user and with any chosen option or none, for
   a question whose stored correct index is null leaves the correct counter
   of every user as it is. *)
C20_UnresolvedNeverCorrect ==
    [][\A u \in Users, p \in PollIds, ch \in Choices :
          (/\ Completes(MapInfo(p), PollSession(p))
           /\ CorrectIndex(p) = None
           /\ handle_poll_answer(u, p, ch))
          => \A v \in Users :
                Tally(sessions', MapInfo(p).chat_id, MapInfo(p).session_id, v)[1]
                = Tally(sessions, MapInfo(p).chat_id, MapInfo(p).session_id, v)[1]]_vars

(* C20, witness: a user's chosen option and another's abstention are
   recorded for a question whose stored correct index is null *)
C20_AnsweredUnresolved ==
    \E i \in DOMAIN sessions, u \in Users, v \in Users :
        \E q \in 0..(Len(sessions[i].questions) - 1) :
           /\ sessions[i].questions[q + 1].correct_index = None
           /\ u \in DOMAIN sessions[i].scores /\ v \in DOMAIN sessions[i].scores
           /\ q \in DOMAIN sessions[i].scores[u].answers
           /\ q \in DOMAIN sessions[i].scores[v].answers
           /\ sessions[i].scores[u].answers[q] = 0
           /\ sessions[i].scores[v].answers[q] = None

(* C21: every poll reference whose session is stored points to a question
   record of that session's stored questions, and handle_poll_answer for its
   poll id, by any user with any option, does not raise. *)
C21_PollReferencesValid ==
    \A p \in PollIds :
        PollSession(p).found
        => /\ ValidIndex(PollSession(p).questions, MapInfo(p).q_index)
           /\ \A u \in Users, ch \in Choices :
                 \A i \in DOMAIN handle_poll_answer_calls(u, p, ch) :
                    handle_poll_answer_calls(u, p, ch)[i].call # "raise"

===========================================================================
